---- MODULE Spec2Model ----
(***************************************************************************)
(* Model of the EBrake sliding-window failure breaker (src/src/lib.rs).    *)
(*                                                                         *)
(* The breaker is the struct EBrake { data, failures, samples, successes,  *)
(* tolerance }.  It is kept in one record-valued variable, ebrake, whose   *)
(* fields carry the names of the struct's fields.  In the words of the     *)
(* specification: window = data, window_size = samples,                    *)
(* failure_count = failures, success_count = successes.                    *)
(***************************************************************************)
EXTENDS Integers, Sequences, FiniteSets

VARIABLES
    ebrake,   \* the EBrake value owned by the caller
    fed,      \* every sample the caller has passed to add_sample or
              \* trigger_on_sample so far, oldest first
    op,       \* the operation the caller performed last
    ret,      \* the value returned by the last call that returned a bool
    ctl,      \* how the last call ended: "returned", "panicked" (it
              \* unwound out of the call), "aborted" (the process is gone)
    trig,     \* the &Trigger argument given last ("None": none given yet)
    events,   \* what the trigger calls have emitted, in order: each
              \* error! log message, each "abort" and "panic"
    pc,       \* "caller": the breaker is used through its synchronous API;
              \* otherwise the position of the watch task that owns it
    resp,     \* the outcome of the watch task's last GET
    result    \* what check_service_endpoint returned last

vars == <<ebrake, fed, op, ret, ctl, trig, events, pc, resp, result>>

(***************************************************************************)
(* Bounds of the exploration.                                              *)
(***************************************************************************)
MaxWindow == 3      \* largest `samples` argument given to EBrake::new
MaxTolerance == 3   \* largest `tolerance` argument given to EBrake::new
MaxSamples == 6     \* largest number of add_sample calls in one run
LongRun == 3        \* a run of true samples fed to a breaker of size 0
MaxCaught == 1      \* largest number of panics the caller recovers from
MaxPreFed == 2      \* largest number of samples fed before the breaker is
                    \* moved into a watch task
MaxInterval == 1    \* largest `interval` argument of watch_service_endpoint

(***************************************************************************)
(* Construction.                                                           *)
(***************************************************************************)

\* new with its two arguments stored in each other's field.
new_swapped(s, t) ==
    [data |-> <<>>, failures |-> 0, samples |-> t, successes |-> 0,
     tolerance |-> s]

\* EBrake::new(samples, tolerance); VecDeque::with_capacity only reserves
\* memory, the deque it returns is empty.
new(s, t) ==
    [data |-> <<>>, failures |-> 0, samples |-> s, successes |-> 0,
     tolerance |-> t]

\* #[derive(Default)]: every field takes its type's default value.
Default ==
    [data |-> <<>>, failures |-> 0, samples |-> 0, successes |-> 0,
     tolerance |-> 0]

(***************************************************************************)
(* VecDeque operations used by the breaker.                                *)
(***************************************************************************)

\* VecDeque::pop_front: the Option it returns, None as the empty sequence
\* and Some(x) as <<x>>.
pop_front_value(d) == IF Len(d) = 0 THEN <<>> ELSE <<Head(d)>>

\* VecDeque::pop_front: the deque that is left.
pop_front_rest(d) == IF Len(d) = 0 THEN d ELSE Tail(d)

\* VecDeque::push_back.
push_back(d, x) == Append(d, x)

(***************************************************************************)
(* EmergencyBrake for EBrake.                                              *)
(***************************************************************************)

\* evict with the match arms crossed: a popped true sample is subtracted
\* from failures and a popped false sample from successes.
evict_wrong_branch(self) ==
    IF Len(self.data) = self.samples
    THEN LET popped == pop_front_value(self.data)
         IN  [self EXCEPT
                !.data = pop_front_rest(self.data),
                !.successes = IF popped = <<FALSE>> THEN @ - 1 ELSE @,
                !.failures = IF popped = <<TRUE>> THEN @ - 1 ELSE @]
    ELSE self

\* evict that pops the front and forgets to decrement either counter.
evict_no_decrement(self) ==
    IF Len(self.data) = self.samples
    THEN [self EXCEPT !.data = pop_front_rest(self.data)]
    ELSE self

\* evict that pops only once the window is longer than `samples`.
evict_off_by_one(self) ==
    IF Len(self.data) > self.samples
    THEN LET popped == pop_front_value(self.data)
         IN  [self EXCEPT
                !.data = pop_front_rest(self.data),
                !.successes = IF popped = <<TRUE>> THEN @ - 1 ELSE @,
                !.failures = IF popped = <<FALSE>> THEN @ - 1 ELSE @]
    ELSE self

\* The first half of add_sample: when data.len() == samples, pop the front
\* and decrement the counter that matches the popped value.
evict(self) ==
    IF Len(self.data) = self.samples
    THEN LET popped == pop_front_value(self.data)
         IN  [self EXCEPT
                !.data = pop_front_rest(self.data),
                !.successes = IF popped = <<TRUE>> THEN @ - 1 ELSE @,
                !.failures = IF popped = <<FALSE>> THEN @ - 1 ELSE @]
    ELSE self

\* count_and_push with the match arms crossed: a true sample is counted
\* as a failure and a false sample as a success.
count_and_push_crossed(self, sample) ==
    [self EXCEPT
       !.successes = IF sample THEN @ ELSE @ + 1,
       !.failures = IF sample THEN @ + 1 ELSE @,
       !.data = push_back(@, sample)]

\* The second half of add_sample: count the sample and push it at the back.
count_and_push(self, sample) ==
    [self EXCEPT
       !.successes = IF sample THEN @ + 1 ELSE @,
       !.failures = IF sample THEN @ ELSE @ + 1,
       !.data = push_back(@, sample)]

\* fn add_sample(&mut self, sample: bool)
add_sample(self, sample) == count_and_push(evict(self), sample)

\* should_trigger comparing the wrong counter with the tolerance.
should_trigger_wrong_counter(self) ==
    IF Len(self.data) < self.tolerance
    THEN FALSE
    ELSE self.successes > self.tolerance

\* should_trigger with >= in place of the strict >.
should_trigger_non_strict(self) ==
    IF Len(self.data) < self.tolerance
    THEN FALSE
    ELSE self.failures >= self.tolerance

\* should_trigger whose early return answers true.
should_trigger_guard_true(self) ==
    IF Len(self.data) < self.tolerance
    THEN TRUE
    ELSE self.failures > self.tolerance

\* fn should_trigger(&self) -> bool
should_trigger(self) ==
    IF Len(self.data) < self.tolerance
    THEN FALSE
    ELSE self.failures > self.tolerance

\* enum Trigger
Triggers == {"Abort", "Panic"}

\* What a trigger call does when should_trigger() is true: it logs msg
\* with error!, then runs the terminating action, and does not return.
fire(msg, action) == [events |-> <<msg, action>>, returns |-> <<>>]

\* What a trigger call does when should_trigger() is false: it returns
\* false.
pass == [events |-> <<>>, returns |-> <<FALSE>>]

\* trigger that logs before it looks at should_trigger().
trigger_logs_first(self, t) ==
    IF should_trigger(self)
    THEN fire("Emergency brake triggered!",
              IF t = "Abort" THEN "abort" ELSE "panic")
    ELSE [events |-> <<"Emergency brake triggered!">>,
          returns |-> <<FALSE>>]

\* trigger with the arms of `match trigger` crossed.
trigger_crossed(self, t) ==
    IF should_trigger(self)
    THEN fire("Emergency brake triggered!",
              IF t = "Abort" THEN "panic" ELSE "abort")
    ELSE pass

\* fn trigger(&self, trigger: &'static Trigger) -> bool
trigger(self, t) ==
    IF should_trigger(self)
    THEN fire("Emergency brake triggered!",
              IF t = "Abort" THEN "abort" ELSE "panic")
    ELSE pass

\* fn trigger_abort(&self) -> bool
trigger_abort(self) ==
    IF should_trigger(self)
    THEN fire("Emergency brake abort triggered!", "abort")
    ELSE pass

\* trigger_panic that panics without logging first.
trigger_panic_silent(self) ==
    IF should_trigger(self)
    THEN [events |-> <<"panic">>, returns |-> <<>>]
    ELSE pass

\* fn trigger_panic(&self) -> bool
trigger_panic(self) ==
    IF should_trigger(self)
    THEN fire("Emergency brake panic triggered!", "panic")
    ELSE pass

\* trigger_on_sample that calls trigger before add_sample.
trigger_on_sample_check_first(self, sample, t) ==
    [self |-> add_sample(self, sample), out |-> trigger(self, t)]

\* fn trigger_on_sample(&mut self, sample: bool, trigger: &'static Trigger)
\* -> bool: the breaker after add_sample, and the outcome of trigger on it.
trigger_on_sample(self, sample, t) ==
    LET added == add_sample(self, sample)
    IN  [self |-> added, out |-> trigger(added, t)]

(***************************************************************************)
(* The caller: it builds one breaker and then calls its methods.           *)
(***************************************************************************)

\* The last n elements of s, in order (all of s when it is shorter).
LastN(s, n) ==
    IF Len(s) <= n THEN s ELSE SubSeq(s, Len(s) - n + 1, Len(s))

\* The number of elements of the sequence s equal to x.
RECURSIVE Count(_, _)
Count(s, x) ==
    IF s = <<>> THEN 0
    ELSE (IF Head(s) = x THEN 1 ELSE 0) + Count(Tail(s), x)

\* process::abort() has been reached: the process is gone.  panic! is not
\* final: it unwinds out of the call, and the owner of the breaker goes on
\* when the panic is caught (catch_unwind) or was raised on another thread.
Halted == events # <<>> /\ events[Len(events)] = "abort"

\* The caller can make a call: the process lives, and every panic so far
\* was recovered from.  A panic beyond MaxCaught is taken as not caught.
CanCall == pc = "caller" /\ ~Halted /\ Count(events, "panic") <= MaxCaught

\* How a call with outcome out ends.
Ending(out) ==
    IF out.returns # <<>> THEN "returned"
    ELSE IF out.events[Len(out.events)] = "abort" THEN "aborted"
    ELSE "panicked"

\* The effect of a call's outcome (as trigger computes it) on the process:
\* its events are emitted, and its value, if it returns one, reaches the
\* caller.
Emit(out) ==
    /\ events' = events \o out.events
    /\ ret' = IF out.returns = <<>> THEN ret ELSE out.returns[1]
    /\ ctl' = Ending(out)

Init ==
    /\ ebrake \in {new(s, t) : s \in 0..MaxWindow, t \in 0..MaxTolerance}
                    \cup {Default}
    /\ fed = <<>>
    /\ op = "new"
    /\ ret = FALSE
    /\ ctl = "returned"
    /\ trig = "None"
    /\ events = <<>>
    /\ pc = "caller"
    /\ resp = "None"
    /\ result = FALSE

\* ebrake.add_sample(sample)
AddSample(sample) ==
    /\ CanCall
    /\ Len(fed) < MaxSamples
    /\ ebrake' = add_sample(ebrake, sample)
    /\ fed' = Append(fed, sample)
    /\ op' = "add_sample"
    /\ ctl' = "returned"
    /\ UNCHANGED <<ret, trig, events, pc, resp, result>>

\* A should_trigger() that consumes the oldest sample of a full window
\* while it answers.
ShouldTrigger_consuming ==
    /\ CanCall
    /\ ret' = should_trigger(ebrake)
    /\ ctl' = "returned"
    /\ op' = "should_trigger"
    /\ ebrake' = evict(ebrake)
    /\ UNCHANGED <<fed, trig, events, pc, resp, result>>

\* ebrake.should_trigger(): &self, so the breaker is only read.
ShouldTrigger ==
    /\ CanCall
    /\ ret' = should_trigger(ebrake)
    /\ ctl' = "returned"
    /\ op' = "should_trigger"
    /\ UNCHANGED <<ebrake, fed, trig, events, pc, resp, result>>

\* ebrake.trigger(t): &self.
Trigger(t) ==
    /\ CanCall
    /\ Emit(trigger(ebrake, t))
    /\ op' = "trigger"
    /\ trig' = t
    /\ UNCHANGED <<ebrake, fed, pc, resp, result>>

\* ebrake.trigger_abort(): &self.
TriggerAbort ==
    /\ CanCall
    /\ Emit(trigger_abort(ebrake))
    /\ op' = "trigger_abort"
    /\ UNCHANGED <<ebrake, fed, trig, pc, resp, result>>

\* ebrake.trigger_panic(): &self.
TriggerPanic ==
    /\ CanCall
    /\ Emit(trigger_panic(ebrake))
    /\ op' = "trigger_panic"
    /\ UNCHANGED <<ebrake, fed, trig, pc, resp, result>>

\* ebrake.trigger_on_sample(sample, t): &mut self, one call of the caller.
TriggerOnSample(sample, t) ==
    /\ CanCall
    /\ Len(fed) < MaxSamples
    /\ ebrake' = trigger_on_sample(ebrake, sample, t).self
    /\ Emit(trigger_on_sample(ebrake, sample, t).out)
    /\ fed' = Append(fed, sample)
    /\ op' = "trigger_on_sample"
    /\ trig' = t
    /\ UNCHANGED <<pc, resp, result>>

Next ==
    \/ \E sample \in BOOLEAN : AddSample(sample)
    \/ ShouldTrigger
    \/ \E t \in Triggers : Trigger(t)
    \/ TriggerAbort
    \/ TriggerPanic
    \/ \E sample \in BOOLEAN, t \in Triggers : TriggerOnSample(sample, t)

Spec == Init /\ [][Next]_vars

(***************************************************************************)
(* ServiceChecker for EBrake: the watch task.                              *)
(*                                                                         *)
(* watch_service_endpoint(self, uri, interval, trigger) moves the breaker, *)
(* in whatever state the caller left it, into a spawned and detached task. *)
(* The task creates the interval timer and then loops forever:             *)
(* interval.tick().await, check_service_endpoint(uri).await,               *)
(* trigger_on_sample(result, trigger).  pc is the task's position:         *)
(*   "spawned"            queued by tokio::spawn, not polled yet           *)
(*   "interval_panicked"  tokio::time::interval panicked (period 0)        *)
(*   "tick", "check", "feed"  the three steps of the loop                  *)
(*   "hung"               the GET never completes (the client has no       *)
(*                        timeout)                                         *)
(*   "cancelled"          the runtime shut down: the task was dropped,     *)
(*                        before its first poll or at an await             *)
(*   "ended"              trigger_on_sample fired: the task is over        *)
(***************************************************************************)

\* What client.get(uri).send().await can come back with: Ok(response),
\* whatever the status of the response, or Err(error) when no response was
\* received.
Responses == {"Ok200", "Ok500", "ErrConnect", "ErrTimeout"}

\* check_service_endpoint answering true for a 2xx response only.
check_service_endpoint_by_status(response) == response = "Ok200"

\* async fn check_service_endpoint(&self, uri: &str) -> bool, as a function
\* of what the GET came back with: Ok(_) => true, Err(_) => false.
check_service_endpoint(response) == response \in {"Ok200", "Ok500"}

\* The sequences of at most n samples.
SamplesUpTo(n) == UNION {[1..k -> BOOLEAN] : k \in 0..n}

\* The breaker after add_sample has been called with each sample of d.
RECURSIVE FedWith(_, _)
FedWith(self, d) ==
    IF d = <<>> THEN self
    ELSE FedWith(add_sample(self, Head(d)), Tail(d))

\* The task has been spawned on a breaker the caller built and fed.
WatchInit ==
    /\ \E s \in 0..MaxWindow, t \in 0..MaxTolerance,
          d \in SamplesUpTo(MaxPreFed) :
          /\ ebrake = FedWith(new(s, t), d)
          /\ fed = d
    /\ op = "watch_service_endpoint"
    /\ ret = FALSE
    /\ ctl = "returned"
    /\ trig \in Triggers
    /\ events = <<>>
    /\ pc = "spawned"
    /\ resp = "None"
    /\ result = FALSE

\* tokio::time::interval(Duration::from_secs(interval as u64)): it panics
\* when the period is zero, which ends the task before its first tick.
StartInterval ==
    /\ pc = "spawned"
    /\ \E interval \in 0..MaxInterval :
          pc' = IF interval = 0 THEN "interval_panicked" ELSE "tick"
    /\ op' = "interval"
    /\ UNCHANGED <<ebrake, fed, ret, ctl, trig, events, resp, result>>

\* interval.tick().await
Tick ==
    /\ pc = "tick"
    /\ pc' = "check"
    /\ op' = "tick"
    /\ UNCHANGED <<ebrake, fed, ret, ctl, trig, events, resp, result>>

\* let result = self.check_service_endpoint(uri).await, the GET completing.
\* (A window of size 0 keeps every sample: the endpoint answers it at most
\* MaxSamples times.)
CheckServiceEndpoint ==
    /\ pc = "check"
    /\ \E response \in Responses :
          /\ check_service_endpoint(response)
                => Len(ebrake.data) < MaxSamples
          /\ resp' = response
          /\ result' = check_service_endpoint(response)
    /\ pc' = "feed"
    /\ op' = "check_service_endpoint"
    /\ UNCHANGED <<ebrake, fed, ret, ctl, trig, events>>

\* The GET of check_service_endpoint never completes: reqwest::Client::new()
\* sets no timeout and the loop has none of its own.
CheckHangs ==
    /\ pc = "check"
    /\ pc' = "hung"
    /\ op' = "check_pending"
    /\ UNCHANGED <<ebrake, fed, ret, ctl, trig, events, resp, result>>

\* The task is detached (its JoinHandle is dropped) and tokio::spawn only
\* queues it: when the runtime shuts down, or stops being driven, the task
\* is dropped where it waits, which is at an await of the loop or before
\* its first poll, when it has not even created the timer.
RuntimeShutdown ==
    /\ pc \in {"spawned", "tick", "check"}
    /\ pc' = "cancelled"
    /\ op' = "shutdown"
    /\ UNCHANGED <<ebrake, fed, ret, ctl, trig, events, resp, result>>

\* self.trigger_on_sample(result, trigger), then around the loop again,
\* unless the call fired: abort ends the process, panic ends the task.
Feed ==
    /\ pc = "feed"
    /\ ebrake' = trigger_on_sample(ebrake, result, trig).self
    /\ Emit(trigger_on_sample(ebrake, result, trig).out)
    /\ pc' = IF trigger_on_sample(ebrake, result, trig).out.returns = <<>>
             THEN "ended" ELSE "tick"
    /\ op' = "trigger_on_sample"
    /\ UNCHANGED <<fed, trig, resp, result>>

WatchNext ==
    \/ StartInterval
    \/ Tick
    \/ CheckServiceEndpoint
    \/ CheckHangs
    \/ RuntimeShutdown
    \/ Feed

\* While the runtime runs (no RuntimeShutdown step) it schedules the task:
\* the timer is created, it fires, a GET that does not hang completes, and
\* the feed is a plain call.  A behaviour may instead take RuntimeShutdown
\* at any wait, the first poll included, or CheckHangs at a check.
WatchSpec ==
    /\ WatchInit
    /\ [][WatchNext]_vars
    /\ WF_vars(StartInterval)
    /\ WF_vars(Tick)
    /\ WF_vars(CheckServiceEndpoint)
    /\ WF_vars(Feed)

(***************************************************************************)
(* Vocabulary of the properties.                                           *)
(***************************************************************************)

\* The length of the run of true samples at the end of s.
RECURSIVE TrailingTrues(_)
TrailingTrues(s) ==
    IF s = <<>> \/ s[Len(s)] = FALSE THEN 0
    ELSE 1 + TrailingTrues(SubSeq(s, 1, Len(s) - 1))

Full == Len(ebrake.data) = ebrake.samples

TypeOK ==
    /\ ebrake.data \in Seq(BOOLEAN)
    /\ ebrake.failures \in Int
    /\ ebrake.successes \in Int
    /\ ebrake.samples \in 0..MaxWindow
    /\ ebrake.tolerance \in 0..MaxTolerance
    /\ op \in {"new", "add_sample", "should_trigger", "trigger",
               "trigger_abort", "trigger_panic", "trigger_on_sample",
               "watch_service_endpoint", "interval", "tick",
               "check_service_endpoint", "check_pending", "shutdown"}
    /\ ret \in BOOLEAN
    /\ trig \in Triggers \cup {"None"}
    /\ ctl \in {"returned", "panicked", "aborted"}
    /\ pc \in {"caller", "spawned", "interval_panicked", "tick", "check",
               "feed", "hung", "cancelled", "ended"}
    /\ resp \in Responses \cup {"None"}
    /\ result \in BOOLEAN

\* What the last should_trigger() call returned is what the breaker, which
\* has not changed since, answers now.
RetIsCurrent == op = "should_trigger" => ret = should_trigger(ebrake)

(***************************************************************************)
(* C1.  Whenever the window is full (data.len() == samples),               *)
(* should_trigger() is true exactly when the number of false samples in    *)
(* the window is strictly greater than tolerance: a full window holding    *)
(* exactly `tolerance` failures does not trigger, one holding              *)
(* tolerance + 1 does.                                                     *)
(***************************************************************************)
C1_FullWindowTriggersIffFailuresExceedTolerance ==
    /\ RetIsCurrent
    /\ Full =>
         (should_trigger(ebrake)
            <=> Count(ebrake.data, FALSE) > ebrake.tolerance)

\* A window that has slid, is full, holds tolerance + 1 failures, and a
\* should_trigger() call on it that returned true.
C1_Witness ==
    /\ Full
    /\ ebrake.samples >= 1
    /\ Len(fed) > ebrake.samples
    /\ Count(ebrake.data, FALSE) = ebrake.tolerance + 1
    /\ op = "should_trigger"
    /\ ret = TRUE

(***************************************************************************)
(* C2.  After construction and after every add_sample: failures is the     *)
(* number of false samples in the window, successes the number of true     *)
(* samples, the two add up to the window's length, and neither counter     *)
(* is below 0.                                                             *)
(***************************************************************************)
C2_CountersMatchWindow ==
    /\ ebrake.failures = Count(ebrake.data, FALSE)
    /\ ebrake.successes = Count(ebrake.data, TRUE)
    /\ ebrake.failures + ebrake.successes = Len(ebrake.data)
    /\ ebrake.failures >= 0
    /\ ebrake.successes >= 0

\* An add_sample that evicted from a full window holding both kinds of
\* sample.
C2_Witness ==
    /\ op = "add_sample"
    /\ ebrake.samples >= 2
    /\ Len(fed) > ebrake.samples
    /\ ebrake.failures >= 1
    /\ ebrake.successes >= 1

(***************************************************************************)
(* C3.  In every reachable state the window is no longer than the          *)
(* configured size: data.len() <= samples, also for samples = 0 and for    *)
(* the default breaker.                                                    *)
(***************************************************************************)
C3_WindowWithinSize == Len(ebrake.data) <= ebrake.samples

(***************************************************************************)
(* C4.  After more than `samples` add_sample calls the window holds        *)
(* exactly `samples` elements, and they are the `samples` most recently    *)
(* fed samples, oldest first.                                              *)
(***************************************************************************)
C4_WindowIsLastSamples ==
    Len(fed) > ebrake.samples =>
        /\ Len(ebrake.data) = ebrake.samples
        /\ ebrake.data = LastN(fed, ebrake.samples)

(***************************************************************************)
(* C5.  add_sample(x) on a full, non-empty window leaves both counters     *)
(* unchanged when the oldest sample equals x, and otherwise moves one      *)
(* unit from the counter of the oldest sample to the counter of x;         *)
(* add_sample(x) on a window that is not full adds 1 to the counter of x   *)
(* and leaves the other counter unchanged.                                 *)
(***************************************************************************)
C5_Deltas(x) ==
    LET d == ebrake.data
        full == Len(d) = ebrake.samples
        df == ebrake'.failures - ebrake.failures
        ds == ebrake'.successes - ebrake.successes
    IN  /\ (full /\ d # <<>> /\ Head(d) = x) => (df = 0 /\ ds = 0)
        /\ (full /\ d # <<>> /\ Head(d) = TRUE /\ x = FALSE)
              => (df = 1 /\ ds = -1)
        /\ (full /\ d # <<>> /\ Head(d) = FALSE /\ x = TRUE)
              => (df = -1 /\ ds = 1)
        /\ (~full /\ x = FALSE) => (df = 1 /\ ds = 0)
        /\ (~full /\ x = TRUE) => (df = 0 /\ ds = 1)

C5_CounterDeltas ==
    [][\A x \in BOOLEAN : fed' = Append(fed, x) => C5_Deltas(x)]_vars

\* add_sample(false) has just evicted a true sample from a full window.
C5_Witness ==
    /\ op = "add_sample"
    /\ ebrake.samples >= 1
    /\ Len(fed) > ebrake.samples
    /\ fed[Len(fed)] = FALSE
    /\ fed[Len(fed) - ebrake.samples] = TRUE

(***************************************************************************)
(* C6.  As claimed: should_trigger() is false in every state whose window  *)
(* is not yet full (data.len() < samples).                                 *)
(***************************************************************************)
C6_NeverTripsBeforeFull ==
    Len(ebrake.data) < ebrake.samples => ~should_trigger(ebrake)

(***************************************************************************)
(* C6, amended.  should_trigger() is false in every state whose window is  *)
(* not yet full and holds at most `tolerance` samples.                     *)
(***************************************************************************)
C6_NeverTripsBeforeFullWithinTolerance ==
    (Len(ebrake.data) < ebrake.samples
       /\ Len(ebrake.data) <= ebrake.tolerance)
        => ~should_trigger(ebrake)

\* A window that is not full and holds exactly `tolerance` samples, all of
\* them failures, on which should_trigger() returned false.
C6_Witness ==
    /\ Len(ebrake.data) < ebrake.samples
    /\ Len(ebrake.data) = ebrake.tolerance
    /\ ebrake.tolerance >= 1
    /\ Count(ebrake.data, FALSE) = ebrake.tolerance
    /\ op = "should_trigger"
    /\ ret = FALSE

(***************************************************************************)
(* C7.  should_trigger() is false in every state whose window holds fewer  *)
(* than `tolerance` samples, whatever the samples are.                     *)
(***************************************************************************)
C7_FalseBelowTolerance ==
    Len(ebrake.data) < ebrake.tolerance =>
        /\ ~should_trigger(ebrake)
        /\ op = "should_trigger" => ret = FALSE

\* Fewer than `tolerance` samples, all failures, and a should_trigger()
\* call that returned false.
C7_Witness ==
    /\ Len(ebrake.data) < ebrake.tolerance
    /\ Len(ebrake.data) >= 1
    /\ Count(ebrake.data, FALSE) = Len(ebrake.data)
    /\ op = "should_trigger"
    /\ ret = FALSE

(***************************************************************************)
(* C8.  A breaker with samples = 0 (any tolerance, the default breaker     *)
(* included) never triggers: should_trigger() is false after every         *)
(* sequence of add_sample calls.                                           *)
(***************************************************************************)
C8_ZeroWindowNeverTriggers ==
    ebrake.samples = 0 => ~should_trigger(ebrake)

(***************************************************************************)
(* C9.  The trip is not latched: a long enough run of consecutive true     *)
(* samples always brings should_trigger() back to false, for every         *)
(* configuration.  A run as long as the window is long enough for a        *)
(* window of size >= 1; for size 0 the run is taken LongRun long.          *)
(***************************************************************************)
RecoveryRun == IF ebrake.samples = 0 THEN LongRun ELSE ebrake.samples

C9_TruesClearTheTrip ==
    TrailingTrues(fed) >= RecoveryRun => ~should_trigger(ebrake)

(***************************************************************************)
(* C10.  should_trigger() is a pure predicate: a call leaves data, both    *)
(* counters, samples and tolerance unchanged, and consecutive calls with   *)
(* no add_sample in between return the same value.                         *)
(***************************************************************************)
C10_ShouldTriggerIsPure ==
    [][op' = "should_trigger" =>
          /\ ebrake' = ebrake
          /\ op = "should_trigger" => ret' = ret]_vars

\* A should_trigger() call that returned true on a tripped breaker.
C10_Witness ==
    /\ op = "should_trigger"
    /\ ret = TRUE
    /\ ebrake.failures > ebrake.tolerance
    /\ Len(fed) >= 2

(***************************************************************************)
(* Vocabulary of the trigger calls.                                        *)
(***************************************************************************)

\* The calls that only decide and act: trigger, trigger_abort,
\* trigger_panic.
TriggerOps == {"trigger", "trigger_abort", "trigger_panic"}

\* The error! messages of the three trigger calls.
LogMessages ==
    {"Emergency brake triggered!", "Emergency brake abort triggered!",
     "Emergency brake panic triggered!"}

\* The terminating action the last call was configured with.
ConfiguredAction ==
    CASE op = "trigger_abort" -> "abort"
      [] op = "trigger_panic" -> "panic"
      [] op \in {"trigger", "trigger_on_sample"} ->
            IF trig = "Abort" THEN "abort" ELSE "panic"
      [] OTHER -> "none"

(***************************************************************************)
(* C11.  A trigger, trigger_abort or trigger_panic call made while         *)
(* should_trigger() is false returns false, emits no log event, does not   *)
(* run the terminating action and leaves the breaker unchanged.            *)
(***************************************************************************)
C11_NoTripNoEffect ==
    [][(op' \in TriggerOps /\ ~should_trigger(ebrake)) =>
          /\ ret' = FALSE
          /\ ctl' = "returned"
          /\ events' = events
          /\ ebrake' = ebrake]_vars

\* A trigger call that returned false on a breaker holding failures, but
\* not more than the tolerance.
C11_Witness ==
    /\ op \in TriggerOps
    /\ ~should_trigger(ebrake)
    /\ ebrake.failures >= 1
    /\ ret = FALSE
    /\ ctl = "returned"
    /\ events = <<>>

(***************************************************************************)
(* C12.  A trigger call made while should_trigger() is true runs exactly   *)
(* the configured terminating action (Abort: process::abort, Panic:        *)
(* panic!) and does not return; so every trigger, trigger_abort,           *)
(* trigger_panic or trigger_on_sample call that returns, returns false.    *)
(***************************************************************************)
C12_TripTerminates ==
    (op \in TriggerOps \cup {"trigger_on_sample"}) =>
        /\ should_trigger(ebrake) =>
              /\ ctl # "returned"
              /\ events # <<>>
              /\ events[Len(events)] = ConfiguredAction
              /\ ctl = "aborted" <=> ConfiguredAction = "abort"
              /\ ctl = "aborted" <=> Halted
        /\ ctl = "returned" => ret = FALSE

\* trigger(&Trigger::Abort) has aborted the process.
C12_Witness ==
    /\ op = "trigger"
    /\ trig = "Abort"
    /\ should_trigger(ebrake)
    /\ ctl = "aborted"
    /\ Halted
    /\ events[Len(events)] = "abort"

(***************************************************************************)
(* C13.  trigger_on_sample(x, t) is add_sample(x) followed by trigger(t)   *)
(* on the resulting breaker: the breaker afterwards is the one add_sample  *)
(* leaves, and the decision, the log, the action and the returned value    *)
(* are those of trigger on the window that already holds x.                *)
(***************************************************************************)
C13_TriggerOnSampleComposes ==
    [][\A x \in BOOLEAN :
         (op' = "trigger_on_sample" /\ fed' = Append(fed, x)) =>
            LET added == add_sample(ebrake, x)
            IN  /\ ebrake' = added
                /\ events' = events \o trigger(added, trig').events
                /\ ctl' # "returned" <=> should_trigger(added)
                /\ ctl' = "returned" => ret' = FALSE]_vars

\* The trigger_on_sample call whose sample first made should_trigger()
\* true has fired the action.
C13_Witness ==
    /\ op = "trigger_on_sample"
    /\ ctl # "returned"
    /\ Len(fed) >= 2
    /\ fed[Len(fed)] = FALSE
    /\ ebrake.failures = ebrake.tolerance + 1

(***************************************************************************)
(* C14.  While every sample fed so far is true, should_trigger() is        *)
(* false, no action has fired, and every trigger call has returned false.  *)
(***************************************************************************)
C14_AllTrueNeverTrips ==
    Count(fed, FALSE) = 0 =>
        /\ ~should_trigger(ebrake)
        /\ events = <<>>
        /\ op \in TriggerOps \cup {"trigger_on_sample"} => ret = FALSE

\* A full window of true samples, fed to the end of the run, and a trigger
\* call on it that returned false.
C14_Witness ==
    /\ Count(fed, FALSE) = 0
    /\ Len(fed) = MaxSamples
    /\ ebrake.samples >= 1
    /\ Full
    /\ op = "trigger"
    /\ ret = FALSE

(***************************************************************************)
(* C15.  Every terminating action is immediately preceded by exactly one   *)
(* trigger log event, and every trigger log event is immediately followed  *)
(* by the terminating action.                                              *)
(***************************************************************************)
C15_LogThenAction ==
    \A i \in 1..Len(events) :
        /\ events[i] \in {"abort", "panic"} =>
              /\ i >= 2
              /\ events[i - 1] \in LogMessages
              /\ i >= 3 => events[i - 2] \notin LogMessages
        /\ events[i] \in LogMessages =>
              /\ i < Len(events)
              /\ events[i + 1] \in {"abort", "panic"}

\* trigger_panic has logged and panicked.
C15_Witness ==
    /\ op = "trigger_panic"
    /\ events = <<"Emergency brake panic triggered!", "panic">>

(***************************************************************************)
(* C18.  A freshly constructed breaker has an empty window and both        *)
(* counters 0; EBrake::default() also has samples = 0 and tolerance = 0,   *)
(* EBrake::new(w, t) has samples = w and tolerance = t; should_trigger()   *)
(* is false on it for every (w, t).                                        *)
(***************************************************************************)
C18_FreshBreaker ==
    /\ op = "new" =>
          /\ ebrake.data = <<>>
          /\ ebrake.failures = 0
          /\ ebrake.successes = 0
          /\ ~should_trigger(ebrake)
    /\ \A w \in 0..MaxWindow, t \in 0..MaxTolerance :
          /\ new(w, t).samples = w
          /\ new(w, t).tolerance = t
          /\ new(w, t).data = <<>>
          /\ ~should_trigger(new(w, t))
    /\ Default.samples = 0 /\ Default.tolerance = 0
    /\ ~should_trigger(Default)

\* The breaker EBrake::default() builds, before any call.
C18_Witness ==
    /\ op = "new"
    /\ ebrake = Default

(***************************************************************************)
(* C19.  In every reachable state should_trigger() equals                  *)
(* failures > tolerance: the guard on data.len() never changes the         *)
(* answer, so the breaker trips on the insertion that brings the failures  *)
(* in the window to tolerance + 1, full window or not.                     *)
(***************************************************************************)
C19_GuardIsRedundant ==
    should_trigger(ebrake) <=> (ebrake.failures > ebrake.tolerance)

\* A window that is not full and holds tolerance + 1 failures: tripped.
C19_Witness ==
    /\ Len(ebrake.data) < ebrake.samples
    /\ ebrake.failures = ebrake.tolerance + 1
    /\ ebrake.tolerance >= 1
    /\ op = "should_trigger"
    /\ ret = TRUE

(***************************************************************************)
(* C20.  A breaker with samples >= 1 and tolerance >= samples never        *)
(* triggers: should_trigger() is false in every reachable state, whatever  *)
(* the samples, and no terminating action fires.                           *)
(***************************************************************************)
C20_ToleranceAtLeastWindowNeverTrips ==
    (ebrake.samples >= 1 /\ ebrake.tolerance >= ebrake.samples) =>
        /\ ~should_trigger(ebrake)
        /\ events = <<>>

\* A window of size = tolerance, slid and full of failures, on which
\* should_trigger() returned false.
C20_Witness ==
    /\ ebrake.samples >= 1
    /\ ebrake.tolerance = ebrake.samples
    /\ Len(fed) > ebrake.samples
    /\ ebrake.failures = ebrake.samples
    /\ op = "should_trigger"
    /\ ret = FALSE

(***************************************************************************)
(* Vocabulary of the watch task.                                           *)
(***************************************************************************)

\* The last check completed and failed, and the loop is still going round.
ChecksFail ==
    /\ resp \in {"ErrConnect", "ErrTimeout"}
    /\ result = FALSE
    /\ pc \notin {"hung", "cancelled"}

\* The task's trigger_on_sample has run the configured terminating action.
Fired ==
    /\ pc = "ended"
    /\ events # <<>>
    /\ events[Len(events)] = ConfiguredAction

(***************************************************************************)
(* C16.  As claimed: in the watch loop, if from some tick onward every     *)
(* endpoint check fails, the breaker eventually triggers and the           *)
(* terminating action fires, whatever (samples, tolerance) it was built    *)
(* with.                                                                   *)
(***************************************************************************)
C16_DeadEndpointTrips ==
    <>[]ChecksFail => <>Fired

(***************************************************************************)
(* C16, amended.  In the watch loop of a breaker with                      *)
(* tolerance < samples, if from some tick onward every endpoint check      *)
(* fails, the breaker eventually triggers and the configured terminating   *)
(* action fires.                                                           *)
(***************************************************************************)
C16_DeadEndpointTripsWhenToleranceBelowWindow ==
    (ebrake.tolerance < ebrake.samples) => (<>[]ChecksFail => <>Fired)

\* The watch task has fired the action on the failed check that brought
\* the failures in a full window to tolerance + 1.
C16_Witness ==
    /\ Fired
    /\ op = "trigger_on_sample"
    /\ ChecksFail
    /\ ebrake.tolerance >= 1
    /\ ebrake.tolerance < ebrake.samples
    /\ ebrake.failures = ebrake.tolerance + 1
    /\ ebrake.successes >= 1
    /\ Full

(***************************************************************************)
(* C17.  check_service_endpoint answers true for a success response only:  *)
(* every transport failure, every timeout and every non-success response   *)
(* that was received (an HTTP 500) gives false.                            *)
(***************************************************************************)
C17_OnlySuccessIsTrue ==
    op = "check_service_endpoint" => (result <=> resp = "Ok200")

====
